---- MODULE Spec2Model ----
(***************************************************************************)
(* The entity/component frame driver of the game: Game.addEntity,          *)
(* Game.update (game-over branch with its keyup listeners, update pass,    *)
(* destruction pass, compaction, collision pass, late-update pass),        *)
(* Game.detectCollisions and the GameState counters.                       *)
(*                                                                         *)
(* Entity objects live in a heap (a sequence indexed by object reference); *)
(* the live collection and the per-pass snapshots are sequences of         *)
(* references, so a flag set through one alias is seen through the others. *)
(***************************************************************************)
EXTENDS Integers, Sequences, FiniteSets, TLC

\* ------------------------------------------------------------------ bounds
\* Largest id the counter may hand out (addEntity is disabled beyond it).
MaxCount == 10
\* Most keyup listeners that game-over update() calls may register.
MaxListeners == 2
\* The components' hooks do not drive lives below -MaxDebt.
MaxDebt == 0
\* Entities a component hook may add to one world between two rebuilds.
MaxSpawned == 1
\* GameState operations called on one GameState instance (SpecState).
MaxCalls == 13

\* --------------------------------------------------------- program constants
WORLD_WIDTH == 640
WORLD_HEIGHT == 480
StartLives == 3
StartCount == 1
StreakLimit == 5

VARIABLES
  heap,       \* Seq of Entity objects; index = object reference
  entities,   \* Game.entities: the live collection, Seq of references
  count,      \* Game.count: the next entity id
  state,      \* Game.state: [lives, score, streak]
  listeners,  \* keyup listeners registered on document: Seq of breakCircuit flags
  pc,         \* position of the running handler, "idle" between handlers
  snap,       \* the array copy the running pass iterates over
  i,          \* outer index of the running pass (1-based)
  j,          \* inner index of the collision pass (1-based)
  key,        \* event.code of the keyup being dispatched
  cfg,        \* config.json: [penBox]
  ev,         \* the call made by the last step (observation)
  hist        \* observations of the running frame / game-over entry

vars == <<heap, entities, count, state, listeners, pc, snap, i, j, key, cfg, ev, hist>>

\* ------------------------------------------------------------- sequences
Range(s) == {s[k] : k \in 1..Len(s)}

RECURSIVE FilterSeq(_, _, _)
\* Array.prototype.filter: the members of s whose reference satisfies keep,
\* in order.  keep is a set of references.
FilterSeq(s, keep, k) ==
  IF k > Len(s) THEN <<>>
  ELSE IF s[k] \in keep THEN <<s[k]>> \o FilterSeq(s, keep, k + 1)
  ELSE FilterSeq(s, keep, k + 1)

\* -------------------------------------------------------------- GameState
\* new GameState()
NewGameState == [lives |-> StartLives, score |-> 0, streak |-> 0]

\* a gainLife that grants two lives
gainLife_two(s) == [s EXCEPT !.lives = @ + 2]

gainLife(s) == [s EXCEPT !.lives = @ + 1]

\* a setter that grants the bonus already when the streak reaches the limit
setCatsReturnedinARow_atLimit(s, newValue) ==
  IF newValue >= StreakLimit
    THEN [gainLife(s) EXCEPT !.streak = 0]
    ELSE [s EXCEPT !.streak = newValue]

\* a setter that grants the bonus and lets the streak climb on
setCatsReturnedinARow_noReset(s, newValue) ==
  IF newValue > StreakLimit
    THEN [gainLife(s) EXCEPT !.streak = newValue]
    ELSE [s EXCEPT !.streak = newValue]

\* set catsReturnedinARow(newValue)
setCatsReturnedinARow(s, newValue) ==
  IF newValue > StreakLimit
    THEN [gainLife(s) EXCEPT !.streak = 0]
    ELSE [s EXCEPT !.streak = newValue]

\* a loseLife that leaves the streak alone
loseLife_keepsStreak(s) == [s EXCEPT !.lives = @ - 1]

loseLife(s) == [setCatsReturnedinARow(s, 0) EXCEPT !.lives = @ - 1]

increaseScore(s, amount) ==
  [setCatsReturnedinARow(s, s.streak + 1) EXCEPT !.score = @ + amount]

\* GameState.loseLife of src/game/store.ts, the class without a streak:
\* s is [lives, score]
storeLoseLife(s) == [s EXCEPT !.lives = @ - 1]

\* a game that is over only once lives are negative
isGameOver_negativeOnly(s) == s.lives < 0

\* Game.isGameOver
isGameOver(s) == s.lives <= 0

\* ---------------------------------------------------------------- hitboxes
\* HitboxComponent.intersects: axis-aligned boxes overlap
intersects(a, b) ==
  /\ a.x < b.x + b.w
  /\ a.x + a.w > b.x
  /\ a.y < b.y + b.h
  /\ a.y + a.h > b.y

Box(x, y, w, h) == [x |-> x, y |-> y, w |-> w, h |-> h]

\* initEntities: the player's hitbox, centred in the world
PlayerBox == Box(WORLD_WIDTH \div 2 - 16, WORLD_HEIGHT \div 2 - 16, 32, 32)
\* initEntities: the cat spawner's hitbox
SpawnerBox == Box(0, 0, 100, 100)
\* initEntities: the pen's hitbox comes from config.json; a placement that
\* overlaps the player's start
PenBoxes == {Box(288, 208, 64, 64)}
\* createCat: where the spawner puts a cat (inside the spawner's box)
CatBoxes == {Box(40, 40, 32, 32)}

\* ---------------------------------------------------------------- entities
\* new Entity(): no id yet, not deleted.  Besides the object's fields the
\* record keeps what happened to it: how often it was spawned and destroyed,
\* what its onSpawn hooks saw, and the pass that set its deleted flag
\* ("old": a pass of an earlier frame).
NewEntity(box) ==
  [entityId |-> 0, deleted |-> FALSE, box |-> box,
   spawns |-> 0, destroys |-> 0, idAtSpawn |-> 0, memberAtSpawn |-> FALSE,
   flaggedIn |-> "none", gone |-> FALSE]

\* Entity.spawn(context): runs the onSpawn hooks, which see the entity as it
\* is at this moment (its entityId, its membership of context.getEntities())
spawn(e, member) ==
  [e EXCEPT !.spawns = @ + 1, !.idAtSpawn = e.entityId, !.memberAtSpawn = member]

\* Entity.destroy(): runs the onDestroy hooks
destroy(e) == [e EXCEPT !.destroys = @ + 1]

\* the world a handler works on
World(h, es, c, st) == [heap |-> h, entities |-> es, count |-> c, state |-> st]

\* Game.addEntity(new Entity() with a hitbox at box)
addEntity(w, box) ==
  LET o  == Len(w.heap) + 1
      e0 == NewEntity(box)
      e1 == spawn(e0, o \in Range(w.entities))
      e2 == [e1 EXCEPT !.entityId = w.count]
  IN  [w EXCEPT !.heap = Append(w.heap, e2),
                !.count = w.count + 1,
                !.entities = Append(w.entities, o)]

\* Game.initEntities with the pen at penBox (dog and tables disabled in config)
initEntities(w, penBox) ==
  addEntity(addEntity(addEntity(w, PlayerBox), SpawnerBox), penBox)

\* number of entities initEntities adds
InitSize == Len(initEntities(World(<<>>, <<>>, StartCount, NewGameState),
                             Box(0, 0, 0, 0)).entities)

Deleted(h) == {o \in 1..Len(h) : h[o].deleted}

\* An entity that has left the collection is referenced by nothing once the
\* handler that dropped it has returned and no call can reach it any more;
\* what is kept of it is the id it was given.
Forgotten(e) == [NewEntity(Box(0, 0, 0, 0)) EXCEPT
                   !.entityId = e.entityId, !.gone = TRUE]

Collected(h, es) ==
  [o \in 1..Len(h) |-> IF o \in Range(es) THEN h[o] ELSE Forgotten(h[o])]

\* when a frame has ended, the flags it set are flags of an earlier frame
Aged(h) ==
  [o \in 1..Len(h) |-> IF h[o].deleted THEN [h[o] EXCEPT !.flaggedIn = "old"]
                                       ELSE h[o]]

\* ------------------------------------------------------- component hooks
\* What a component hook running for an entity may do through its entity and
\* its context: nothing, set the deleted flag of an entity of the world, add
\* an entity (context.addEntity) or take a life (context.getState().loseLife()).
None == [t |-> "none", target |-> 0, box |-> Box(0, 0, 0, 0)]
Delete(o) == [t |-> "delete", target |-> o, box |-> Box(0, 0, 0, 0)]
SpawnCat(b) == [t |-> "spawn", target |-> 0, box |-> b]
LoseLife == [t |-> "loseLife", target |-> 0, box |-> Box(0, 0, 0, 0)]

\* the update hooks of an entity's components
UpdateEffects(w, spawned) ==
  {None}
  \cup {Delete(o) : o \in Range(w.entities)}
  \cup {SpawnCat(b) : b \in {c \in CatBoxes :
                                 spawned < MaxSpawned /\ w.count <= MaxCount}}
  \cup {f \in {LoseLife} : w.state.lives > -MaxDebt}

\* HitboxComponent.collidedWith(other) on the hitbox of entity a: the
\* components of a react by leaving things alone or by deleting a or other
CollisionEffects(a, other) == {None, Delete(a), Delete(other)}

\* the lateUpdate hooks of entity o: leave things alone or delete o
LateEffects(o) == {None, Delete(o)}

\* the onDestroy hooks of an entity: leave things alone or delete an entity
DestroyEffects(w) == {None} \cup {Delete(o) : o \in Range(w.entities)}

\* the effect of a hook that runs in pass
Apply(w, eff, pass) ==
  CASE eff.t = "none" -> w
    [] eff.t = "delete" ->
         [w EXCEPT !.heap[eff.target] =
            [@ EXCEPT !.deleted = TRUE,
                      !.flaggedIn = IF @ = "none" THEN pass ELSE @]]
    [] eff.t = "spawn" -> addEntity(w, eff.box)
    [] eff.t = "loseLife" -> [w EXCEPT !.state = loseLife(w.state)]

\* ------------------------------------------------------------ observation
\* a call as the last step made it: what was called, on which entities, the
\* collidedWith calls that followed (for the compaction: the entities it
\* removed, each with the pass that flagged it), and what held when the call
\* was made
\* (the pass that had set the entities' deleted flags, the GameState)
Ev(op, a, b, calls) ==
  [op |-> op, a |-> a, b |-> b, calls |-> calls,
   aFlag |-> IF a \in 1..Len(heap) THEN heap[a].flaggedIn ELSE "none",
   bFlag |-> IF b \in 1..Len(heap) THEN heap[b].flaggedIn ELSE "none",
   lives |-> state.lives, score |-> state.score, streak |-> state.streak]

\* resets: reset effects executed since the game was last over;
\* spawned: entities the hooks added to this world;
\* passes: the passes (by Rank) that made a call earlier in the running frame;
\* calls: GameState operations called on the instance since it was created;
\* onlyScore: all of them were increaseScore calls;
\* tested: the pairs <<e1, e2>> the running collision pass has tested so far;
\* visited: the entities the running pass has come to so far, in order;
\* added: the entities of the collection that hooks added in the running frame
NewHist == [resets |-> 0, spawned |-> 0, passes |-> {},
            calls |-> 0, onlyScore |-> TRUE, tested |-> <<>>,
            visited |-> <<>>, added |-> {}]

\* the passes of a frame, numbered by the call each makes
Rank(op) ==
  CASE op = "update" -> 1
    [] op = "destroy" -> 2
    [] op = "compact" -> 3
    [] op = "pair" -> 4
    [] op = "lateUpdate" -> 5
    [] OTHER -> 0

\* the passes seen once the last step's call is counted
Seen(ps) == ps \cup {r \in {Rank(ev.op)} : r > 0}

W == World(heap, entities, count, state)

SetWorld(w) ==
  /\ heap' = w.heap
  /\ entities' = w.entities
  /\ count' = w.count
  /\ state' = w.state

\* hist after a hook turned world w into world w2
Noted(h, w, w2) ==
  [h EXCEPT
     !.passes = Seen(@),
     !.spawned = @ + (Len(w2.entities) - Len(w.entities)),
     !.added = @ \cup (Range(w2.entities) \ Range(w.entities)),
     !.resets = IF ~isGameOver(w.state) /\ isGameOver(w2.state) THEN 0 ELSE @]

\* ------------------------------------------------------------------- Init
Init ==
  /\ heap = <<>>
  /\ entities = <<>>
  /\ count = StartCount
  /\ state = NewGameState
  /\ listeners = <<>>
  /\ pc = "new"
  /\ snap = <<>>
  /\ i = 1
  /\ j = 1
  /\ key = "none"
  /\ cfg \in {[penBox |-> b] : b \in PenBoxes}
  /\ ev = Ev("new", 0, 0, <<>>)
  /\ hist = NewHist

\* Game.setup: initEntities once the assets are loaded
setup ==
  /\ pc = "new"
  /\ SetWorld(initEntities(W, cfg.penBox))
  /\ pc' = "idle"
  /\ ev' = Ev("setup", 0, 0, <<>>)
  /\ UNCHANGED <<listeners, snap, i, j, key, cfg, hist>>

\* ------------------------------------------------------------ Game.update
\* update(), lines 248-271: the game-over branch registers one more keyup
\* listener with its own breakCircuit and returns; otherwise the update pass
\* begins over a copy of the collection.
update ==
  /\ pc = "idle"
  /\ ev' = Ev("update()", 0, 0, <<>>)
  /\ IF isGameOver(state)
       THEN /\ Len(listeners) < MaxListeners
            /\ listeners' = Append(listeners, FALSE)
            /\ UNCHANGED <<pc, snap, i, hist>>
       ELSE /\ pc' = "update"
            /\ snap' = entities
            /\ i' = 1
            /\ hist' = [hist EXCEPT !.passes = {}, !.visited = <<>>]
            /\ UNCHANGED listeners
  /\ UNCHANGED <<heap, entities, count, state, j, key, cfg>>

\* an update pass that walks the collection itself, not a copy of it
updateEntity_live ==
  /\ pc = "update"
  /\ i <= Len(entities)
  /\ \E eff \in UpdateEffects(W, hist.spawned) :
       LET w2 == Apply(W, eff, "update")
       IN  /\ SetWorld(w2)
           /\ hist' = [Noted(hist, W, w2) EXCEPT !.visited = Append(@, entities[i])]
  /\ ev' = Ev("update", entities[i], 0, <<>>)
  /\ i' = i + 1
  /\ UNCHANGED <<listeners, pc, snap, j, key, cfg>>

\* lines 271-273: e.update(delta) for the next entity of the copy
updateEntity ==
  /\ pc = "update"
  /\ i <= Len(snap)
  /\ \E eff \in UpdateEffects(W, hist.spawned) :
       LET w2 == Apply(W, eff, "update")
       IN  /\ SetWorld(w2)
           /\ hist' = [Noted(hist, W, w2) EXCEPT !.visited = Append(@, snap[i])]
  /\ ev' = Ev("update", snap[i], 0, <<>>)
  /\ i' = i + 1
  /\ UNCHANGED <<listeners, pc, snap, j, key, cfg>>

\* a destruction pass over the entities flagged in this frame only
filterDeleted_thisFrame ==
  /\ pc = "update"
  /\ i > Len(snap)
  /\ snap' = FilterSeq(entities,
                       {o \in Deleted(heap) : heap[o].flaggedIn = "update"}, 1)
  /\ i' = 1
  /\ pc' = "destroy"
  /\ ev' = Ev("filter", 0, 0, <<>>)
  /\ hist' = [hist EXCEPT !.passes = Seen(@), !.visited = <<>>]
  /\ UNCHANGED <<heap, entities, count, state, listeners, j, key, cfg>>

\* lines 276-277: this.entities.filter(e => e.deleted), a new array
filterDeleted ==
  /\ pc = "update"
  /\ i > Len(snap)
  /\ snap' = FilterSeq(entities, Deleted(heap), 1)
  /\ i' = 1
  /\ pc' = "destroy"
  /\ ev' = Ev("filter", 0, 0, <<>>)
  /\ hist' = [hist EXCEPT !.passes = Seen(@), !.visited = <<>>]
  /\ UNCHANGED <<heap, entities, count, state, listeners, j, key, cfg>>

\* line 278: e.destroy() for the next entity of the filtered array
destroyEntity ==
  /\ pc = "destroy"
  /\ i <= Len(snap)
  /\ \E eff \in DestroyEffects(W) :
       LET w1 == [W EXCEPT !.heap[snap[i]] = destroy(@)]
           w2 == Apply(w1, eff, "destroy")
       IN  /\ SetWorld(w2)
           /\ hist' = Noted(hist, W, w2)
  /\ ev' = Ev("destroy", snap[i], 0, <<>>)
  /\ i' = i + 1
  /\ UNCHANGED <<listeners, pc, snap, j, key, cfg>>

\* a compaction that removes nothing
Survivors_keepAll(h, es) == es

\* line 281: this.entities.filter(e => !e.deleted)
Survivors(h, es) == FilterSeq(es, (1..Len(h)) \ Deleted(h), 1)

\* line 281: this.entities = the filtered array;
\* lines 283 and 297: detectCollisions() copies the collection
compact ==
  /\ pc = "destroy"
  /\ i > Len(snap)
  /\ entities' = Survivors(heap, entities)
  /\ heap' = Collected(heap, entities')
  /\ snap' = entities'
  /\ i' = 1
  /\ pc' = "outer"
  /\ ev' = Ev("compact", 0, 0,
              LET gone == FilterSeq(entities, Deleted(heap), 1)
              IN  [k \in 1..Len(gone) |-> <<gone[k], heap[gone[k]].flaggedIn>>])
  /\ hist' = [hist EXCEPT !.passes = Seen(@), !.tested = <<>>,
                          !.visited = <<>>,
                          !.added = @ \cap Range(entities')]
  /\ UNCHANGED <<count, state, listeners, j, key, cfg>>

\* ------------------------------------------------- Game.detectCollisions
\* a frame that destroys the deleted entities after the collision pass
collisionsDone_thenDestroy ==
  /\ pc = "outer"
  /\ i > Len(snap)
  /\ snap' = FilterSeq(entities, Deleted(heap), 1)
  /\ i' = 1
  /\ pc' = "destroy"
  /\ ev' = Ev("collisionsDone", 0, 0, <<>>)
  /\ hist' = [hist EXCEPT !.passes = Seen(@)]
  /\ UNCHANGED <<heap, entities, count, state, listeners, j, key, cfg>>

\* line 300: the outer loop's condition fails; detectCollisions returns and
\* line 286 copies the collection for the late-update pass
collisionsDone ==
  /\ pc = "outer"
  /\ i > Len(snap)
  /\ snap' = entities
  /\ i' = 1
  /\ pc' = "late"
  /\ ev' = Ev("collisionsDone", 0, 0, <<>>)
  /\ hist' = [hist EXCEPT !.passes = Seen(@), !.tested = <<>>,
                          !.visited = <<>>]
  /\ UNCHANGED <<heap, entities, count, state, listeners, j, key, cfg>>

\* lines 302-306: e1 is deleted, continue with the next i
outerSkip ==
  /\ pc = "outer"
  /\ i <= Len(snap)
  /\ heap[snap[i]].deleted
  /\ i' = i + 1
  /\ ev' = Ev("skip", snap[i], 0, <<>>)
  /\ hist' = [hist EXCEPT !.passes = Seen(@), !.visited = Append(@, snap[i])]
  /\ UNCHANGED <<heap, entities, count, state, listeners, pc, snap, j, key, cfg>>

\* an inner loop that starts at the first entity
outerEnter_fromFirst ==
  /\ pc = "outer"
  /\ i <= Len(snap)
  /\ ~heap[snap[i]].deleted
  /\ j' = 1
  /\ pc' = "inner"
  /\ ev' = Ev("enter", snap[i], 0, <<>>)
  /\ hist' = [hist EXCEPT !.passes = Seen(@), !.visited = Append(@, snap[i])]
  /\ UNCHANGED <<heap, entities, count, state, listeners, snap, i, key, cfg>>

\* lines 302-308: e1 is not deleted, the inner loop starts at j = i + 1
outerEnter ==
  /\ pc = "outer"
  /\ i <= Len(snap)
  /\ ~heap[snap[i]].deleted
  /\ j' = i + 1
  /\ pc' = "inner"
  /\ ev' = Ev("enter", snap[i], 0, <<>>)
  /\ hist' = [hist EXCEPT !.passes = Seen(@), !.visited = Append(@, snap[i])]
  /\ UNCHANGED <<heap, entities, count, state, listeners, snap, i, key, cfg>>

\* line 308: the inner loop's condition fails, next i
innerDone ==
  /\ pc = "inner"
  /\ j > Len(snap)
  /\ i' = i + 1
  /\ pc' = "outer"
  /\ ev' = Ev("innerDone", snap[i], 0, <<>>)
  /\ hist' = [hist EXCEPT !.passes = Seen(@)]
  /\ UNCHANGED <<heap, entities, count, state, listeners, snap, j, key, cfg>>

\* lines 310-314: e2 is deleted, continue with the next j
innerSkip ==
  /\ pc = "inner"
  /\ j <= Len(snap)
  /\ heap[snap[j]].deleted
  /\ j' = j + 1
  /\ ev' = Ev("skip", snap[j], 0, <<>>)
  /\ hist' = [hist EXCEPT !.passes = Seen(@)]
  /\ UNCHANGED <<heap, entities, count, state, listeners, pc, snap, i, key, cfg>>

\* lines 316-322: the pair (e1, e2) is tested and, if the hitboxes
\* intersect, e1's hitbox is notified and then e2's
collidePair ==
  /\ pc = "inner"
  /\ j <= Len(snap)
  /\ ~heap[snap[j]].deleted
  /\ LET e1 == snap[i]
         e2 == snap[j]
     IN  IF intersects(heap[e1].box, heap[e2].box)
           THEN /\ \E f1 \in CollisionEffects(e1, e2), f2 \in CollisionEffects(e2, e1) :
                     LET w2 == Apply(Apply(W, f1, "collide"), f2, "collide")
                     IN  /\ SetWorld(w2)
                         /\ hist' = [Noted(hist, W, w2) EXCEPT
                                       !.tested = Append(@, <<e1, e2>>)]
                /\ ev' = Ev("pair", e1, e2, <<<<e1, e2>>, <<e2, e1>>>>)
           ELSE /\ SetWorld(W)
                /\ hist' = [Noted(hist, W, W) EXCEPT
                              !.tested = Append(@, <<e1, e2>>)]
                /\ ev' = Ev("pair", e1, e2, <<>>)
  /\ j' = j + 1
  /\ UNCHANGED <<listeners, pc, snap, i, key, cfg>>

\* lines 286-288: e.lateUpdate(delta) for the next entity of the copy
lateUpdateEntity ==
  /\ pc = "late"
  /\ i <= Len(snap)
  /\ \E eff \in LateEffects(snap[i]) :
       LET w2 == Apply(W, eff, "late")
       IN  /\ SetWorld(w2)
           /\ hist' = [Noted(hist, W, w2) EXCEPT !.visited = Append(@, snap[i])]
  /\ ev' = Ev("lateUpdate", snap[i], 0, <<>>)
  /\ i' = i + 1
  /\ UNCHANGED <<listeners, pc, snap, j, key, cfg>>

\* line 289: update() returns after a full frame
frameEnd ==
  /\ pc = "late"
  /\ i > Len(snap)
  /\ pc' = "idle"
  /\ ev' = Ev("frameEnd", 0, 0, <<>>)
  /\ hist' = [hist EXCEPT !.passes = {}, !.visited = <<>>, !.added = {}]
  /\ heap' = Aged(Collected(heap, entities))
  /\ snap' = <<>>
  /\ i' = 1
  /\ j' = 1
  /\ UNCHANGED <<entities, count, state, listeners, key, cfg>>

\* ------------------------------------------------------- keyup listeners
\* the listeners' guard, line 255
armed(code, breakCircuit) == code = "Space" /\ ~breakCircuit

\* a rebuild that also restarts the id counter
reset_restartsCount(w, penBox) ==
  LET h2 == [o \in 1..Len(w.heap) |->
               IF o \in Range(w.entities) THEN destroy(w.heap[o]) ELSE w.heap[o]]
  IN  initEntities(World(h2, <<>>, StartCount, NewGameState), penBox)

\* a rebuild that leaves the destroyed entities in the collection
reset_keepsEntities(w, penBox) ==
  LET h2 == [o \in 1..Len(w.heap) |->
               IF o \in Range(w.entities) THEN destroy(w.heap[o]) ELSE w.heap[o]]
  IN  initEntities(World(h2, w.entities, w.count, NewGameState), penBox)

\* a rebuild that keeps the GameState instance
reset_keepsState(w, penBox) ==
  LET h2 == [o \in 1..Len(w.heap) |->
               IF o \in Range(w.entities) THEN destroy(w.heap[o]) ELSE w.heap[o]]
  IN  initEntities(World(h2, <<>>, w.count, w.state), penBox)

\* lines 256-261: destroy every entity, empty the collection, a new
\* GameState, initEntities
reset(w, penBox) ==
  LET h2 == [o \in 1..Len(w.heap) |->
               IF o \in Range(w.entities) THEN destroy(w.heap[o]) ELSE w.heap[o]]
  IN  initEntities(World(h2, <<>>, w.count, NewGameState), penBox)

\* a keyup event reaches document between two frames
keyup ==
  /\ pc = "idle"
  /\ \E code \in {"Space", "KeyA"} :
       /\ key' = code
       /\ count + InitSize * Cardinality({k \in 1..Len(listeners) :
                                            armed(code, listeners[k])})
            <= MaxCount + 1
  /\ i' = 1
  /\ pc' = "dispatch"
  /\ ev' = Ev("keyup", 0, 0, <<>>)
  /\ UNCHANGED <<heap, entities, count, state, listeners, snap, j, cfg, hist>>

\* lines 254-264: the next registered listener runs
listener ==
  /\ pc = "dispatch"
  /\ i <= Len(listeners)
  /\ IF armed(key, listeners[i])
       THEN /\ SetWorld(reset(W, cfg.penBox))
            /\ listeners' = [listeners EXCEPT ![i] = TRUE]
            /\ hist' = [hist EXCEPT !.resets = @ + 1, !.spawned = 0]
            /\ ev' = Ev("reset", 0, 0, <<>>)
       ELSE /\ UNCHANGED <<heap, entities, count, state, listeners, hist>>
            /\ ev' = Ev("ignored", 0, 0, <<>>)
  /\ i' = i + 1
  /\ UNCHANGED <<pc, snap, j, key, cfg>>

\* every listener has run
dispatched ==
  /\ pc = "dispatch"
  /\ i > Len(listeners)
  /\ pc' = "idle"
  /\ ev' = Ev("dispatched", 0, 0, <<>>)
  /\ heap' = Collected(heap, entities)
  /\ i' = 1
  /\ key' = "none"
  /\ UNCHANGED <<entities, count, state, listeners, snap, j, cfg, hist>>

Next ==
  \/ setup
  \/ update
  \/ updateEntity
  \/ filterDeleted
  \/ destroyEntity
  \/ compact
  \/ collisionsDone
  \/ outerSkip
  \/ outerEnter
  \/ innerDone
  \/ innerSkip
  \/ collidePair
  \/ lateUpdateEntity
  \/ frameEnd
  \/ keyup
  \/ listener
  \/ dispatched

Spec == Init /\ [][Next]_vars

\* --------------------------------------------------- GameState on its own
\* The operations of one GameState instance, called in any order on the
\* instance the Game is constructed with (context.getState()).
Called(h, op) ==
  [h EXCEPT !.calls = @ + 1, !.onlyScore = @ /\ op = "increaseScore"]

callIncreaseScore ==
  /\ hist.calls < MaxCalls
  /\ \E amount \in {1, 2} : state' = increaseScore(state, amount)
  /\ ev' = Ev("increaseScore", 0, 0, <<>>)
  /\ hist' = Called(hist, "increaseScore")
  /\ UNCHANGED <<heap, entities, count, listeners, pc, snap, i, j, key, cfg>>

callLoseLife ==
  /\ hist.calls < MaxCalls
  /\ state' = loseLife(state)
  /\ ev' = Ev("loseLife", 0, 0, <<>>)
  /\ hist' = Called(hist, "loseLife")
  /\ UNCHANGED <<heap, entities, count, listeners, pc, snap, i, j, key, cfg>>

callGainLife ==
  /\ hist.calls < MaxCalls
  /\ state' = gainLife(state)
  /\ ev' = Ev("gainLife", 0, 0, <<>>)
  /\ hist' = Called(hist, "gainLife")
  /\ UNCHANGED <<heap, entities, count, listeners, pc, snap, i, j, key, cfg>>

NextState ==
  \/ callIncreaseScore
  \/ callLoseLife
  \/ callGainLife

SpecState == Init /\ [][NextState]_vars

\* ----------------------------------------------------------------- claims
Live == {o \in 1..Len(heap) : ~heap[o].gone}

\* C1: for each entry into the game-over state the reset effect executes at
\* most once, however many update() calls were made while the game was over
\* and however often the Space keyup fires.
C1_ResetAtMostOncePerGameOver == hist.resets <= 1

\* C2: when update() has completed a full frame, the live collection holds
\* no entity whose deleted flag is true, whichever pass set the flag.
C2_NoDeletedAfterFrame ==
  ev.op = "frameEnd" => \A k \in 1..Len(entities) : ~heap[entities[k]].deleted

\* C3: once an entity's deleted flag is true, no pass that begins afterwards
\* calls update() or lateUpdate() on it or evaluates it in a collision pair.
C3_NoCallOnDeleted ==
  /\ ev.op = "update" => ev.aFlag \notin {"old"}
  /\ ev.op = "pair" => /\ ev.aFlag \notin {"old", "update", "destroy"}
                       /\ ev.bFlag \notin {"old", "update", "destroy"}
  /\ ev.op = "lateUpdate" => ev.aFlag \notin {"old", "update", "destroy", "collide"}

\* C4: in the collision pass, an entity that a collision callback marked
\* deleted is in no pair evaluated later in that pass, neither as the outer
\* (i) nor as the inner (j) entity.
C4_NoPairAfterCollisionDelete ==
  ev.op = "pair" => ev.aFlag # "collide" /\ ev.bFlag # "collide"

\* C5: addEntity assigns the id, then calls spawn, then appends: the onSpawn
\* hooks see the entity with its new id and not yet in the collection.
C5_IdAssignedBeforeSpawn ==
  \A o \in Live :
    heap[o].spawns > 0 =>
      heap[o].idAtSpawn = heap[o].entityId /\ ~heap[o].memberAtSpawn

\* C6: the ids addEntity assigns start at 1, each is one more than the one
\* assigned before it, and none is assigned twice, across frames and resets
\* (the heap lists the entities in the order in which they were added).
C6_IdsConsecutive ==
  /\ \A o \in 1..Len(heap) : heap[o].entityId = o
  /\ count = Len(heap) + 1

C6_Witness ==
  /\ hist.resets >= 1
  /\ hist.spawned >= 1
  /\ Len(heap) > 2 * InitSize

\* C7: an update() call made while lives <= 0 starts no pass (so it calls no
\* update(), destroy(), collision test, collidedWith or lateUpdate()) and
\* leaves the collection, the id counter and the GameState unchanged.
C7_GameOverUpdateIsInert ==
  [][(pc = "idle" /\ state.lives <= 0 /\ ev'.op = "update()")
       => (pc' = "idle" /\ UNCHANGED <<heap, entities, count, state>>)]_vars

C7_Witness ==
  /\ pc = "idle"
  /\ ev.op = "update()"
  /\ state.lives <= 0
  /\ Len(listeners) >= 2
  /\ Len(entities) > 0

\* C8: the destroy-all/rebuild effect never executes at a moment when
\* lives > 0.
C8_ResetOnlyWhenGameOver == ev.op = "reset" => ev.lives <= 0

\* C9: in a frame, the update() calls come before the destroy() calls, these
\* before the compaction, the compaction before the collision tests and
\* callbacks, and these before the lateUpdate() calls: no call of a pass
\* follows a call of a later pass.
C9_PassOrder ==
  Rank(ev.op) > 0 => \A r \in hist.passes : r <= Rank(ev.op)

C9_Witness == ev.op = "lateUpdate" /\ hist.passes = {1, 2, 3, 4}

\* C10: an entity whose deleted flag is set during the update pass has been
\* destroyed when the frame's compaction runs and is removed by it, is in no
\* collision pair of the frame and gets no lateUpdate() in the frame.
C10_UpdateDeletedLeavesInFrame ==
  [][/\ ev'.op = "pair" => ev'.aFlag # "update" /\ ev'.bFlag # "update"
     /\ ev'.op = "lateUpdate" => ev'.aFlag # "update"
     /\ (pc = "destroy" /\ ev'.op = "compact") =>
          \A o \in Live :
            heap[o].flaggedIn = "update" =>
              heap[o].destroys = 1 /\ o \notin Range(entities')]_vars

C10_Witness ==
  /\ ev.op = "compact"
  /\ \E k \in 1..Len(ev.calls) : ev.calls[k][2] = "update"
  /\ Len(entities) >= 2

\* C12: from a fresh GameState, after n increaseScore calls and no other
\* call, streak = n mod 6 and lives = 3 + n div 6 (6 = StreakLimit + 1).
C12_StreakAfterNScores ==
  hist.onlyScore =>
    /\ state.streak = hist.calls % (StreakLimit + 1)
    /\ state.lives = StartLives + hist.calls \div (StreakLimit + 1)

C12_Witness ==
  /\ hist.onlyScore
  /\ hist.calls = 6
  /\ state.lives = 4
  /\ state.streak = 0

\* C13: a loseLife() call leaves streak = 0, lives one less than before and
\* the score unchanged (so it grants no bonus life); the loseLife of the
\* class without a streak gives the same lives and score.
C13_LoseLife ==
  ev.op = "loseLife" =>
    /\ state.streak = 0
    /\ state.lives = ev.lives - 1
    /\ state.score = ev.score
    /\ storeLoseLife([lives |-> ev.lives, score |-> ev.score])
         = [lives |-> state.lives, score |-> state.score]

C13_Witness ==
  /\ ev.op = "loseLife"
  /\ ev.streak = StreakLimit
  /\ state.streak = 0

\* C15: lives increases only in a gainLife() call or in an increaseScore()
\* call made when the streak is 5, and then by exactly 1; every other
\* increaseScore() call leaves lives unchanged.
C15_LivesIncrease ==
  /\ state.lives > ev.lives =>
       /\ ev.op = "gainLife" \/ (ev.op = "increaseScore" /\ ev.streak = 5)
       /\ state.lives = ev.lives + 1
  /\ (ev.op = "increaseScore" /\ ev.streak # 5) => state.lives = ev.lives

C15_Witness ==
  /\ ev.op = "increaseScore"
  /\ ev.streak = 5
  /\ state.lives = ev.lives + 1
  /\ ~hist.onlyScore

\* C20: in every GameState reachable from a fresh instance by increaseScore,
\* loseLife and gainLife calls the streak counter lies in 0..5.
C20_StreakRange == state.streak \in 0..5

C20_Witness ==
  /\ ev.op = "increaseScore"
  /\ ev.streak = 5
  /\ state.streak = 0
  /\ hist.calls > 6

\* C11: in one collision pass every pair of distinct entities of the copy
\* that are both non-deleted when the pair is reached is tested exactly once;
\* if the hitboxes intersect, collidedWith is called once on the lower-index
\* entity's hitbox with the other's and then once the other way round, and
\* not at all if they do not intersect; no entity is paired with itself.
C11_PairsOnce ==
  /\ ev.op = "pair" =>
       /\ pc = "inner" /\ i < j - 1
       /\ ev.a = snap[i] /\ ev.b = snap[j - 1]
       /\ ev.calls = IF intersects(heap[ev.a].box, heap[ev.b].box)
                       THEN <<<<ev.a, ev.b>>, <<ev.b, ev.a>>>>
                       ELSE <<>>
  /\ \A k, l \in 1..Len(hist.tested) :
       /\ hist.tested[k][1] # hist.tested[k][2]
       /\ k # l => /\ hist.tested[k] # hist.tested[l]
                   /\ hist.tested[k] # <<hist.tested[l][2], hist.tested[l][1]>>
  /\ pc \in {"outer", "inner"} =>
       \A k, l \in 1..Len(snap) :
         (/\ k < l
          /\ k < i \/ (k = i /\ pc = "inner" /\ l < j)
          /\ ~heap[snap[k]].deleted
          /\ ~heap[snap[l]].deleted)
         => \E t \in 1..Len(hist.tested) : hist.tested[t] = <<snap[k], snap[l]>>

C11_Witness ==
  /\ pc = "outer"
  /\ i > Len(snap)
  /\ \E k, l \in 1..Len(hist.tested) :
       /\ intersects(heap[hist.tested[k][1]].box, heap[hist.tested[k][2]].box)
       /\ ~intersects(heap[hist.tested[l][1]].box, heap[hist.tested[l][2]].box)
  /\ Len(hist.tested) = (Len(snap) * (Len(snap) - 1)) \div 2
  /\ Len(snap) >= 4

\* C14: spawn() is invoked exactly once on every entity that was added,
\* destroy() at most once, and a step that invokes destroy() on an entity
\* finds it spawned and not yet destroyed; no call can reach an entity that
\* has left the collection and the copies.
C14_SpawnOnceDestroyOnce ==
  [][(\A o \in 1..Len(heap') :
        ~heap'[o].gone =>
          /\ heap'[o].spawns = 1
          /\ heap'[o].destroys <= 1
          /\ (o <= Len(heap) /\ heap'[o].destroys > heap[o].destroys) =>
               /\ ~heap[o].gone
               /\ heap[o].spawns = 1
               /\ heap[o].destroys = 0)
     /\ (\A o \in Range(entities') \cup Range(snap') : ~heap'[o].gone)]_vars

\* a reset has destroyed, once, an entity that a collision or late-update
\* hook had flagged and that an update pass had visited before
C14_Witness ==
  /\ ev.op = "reset"
  /\ \E o \in Live \ Range(entities) :
       /\ heap[o].deleted
       /\ heap[o].spawns = 1
       /\ heap[o].destroys = 1
  /\ \E o \in Range(entities) : heap[o].spawns = 1 /\ heap[o].destroys = 0

\* C16: a reset that fires when the game is over invokes destroy() on every
\* entity of the collection and leaves none of them in it; afterwards the
\* GameState is fresh (lives 3, score 0, streak 0) and the collection is the
\* initial entity set (player, spawner, pen), each a new entity spawned once;
\* an update() call that follows a reset, as long as the game is not over
\* again, starts the normal passes over the collection.
C16_ResetRebuilds ==
  [][/\ (ev'.op = "reset" /\ isGameOver(state)) =>
          LET n == Len(heap)
          IN  /\ \A o \in Range(entities) :
                   /\ heap'[o].destroys = heap[o].destroys + 1
                   /\ o \notin Range(entities')
              /\ state' = [lives |-> 3, score |-> 0, streak |-> 0]
              /\ entities' = <<n + 1, n + 2, n + 3>>
              /\ Len(heap') = n + 3
              /\ <<heap'[n + 1].box, heap'[n + 2].box, heap'[n + 3].box>>
                   = <<PlayerBox, SpawnerBox, cfg.penBox>>
              /\ \A o \in Range(entities') :
                   /\ heap'[o].spawns = 1
                   /\ heap'[o].destroys = 0
                   /\ ~heap'[o].deleted
     /\ (ev'.op = "update()" /\ hist.resets >= 1) =>
          /\ pc' = "update"
          /\ snap' = entities
          /\ listeners' = listeners]_vars

\* the first update() call after the reset that ended a game over has begun
\* the update pass over the rebuilt initial set
C16_Witness ==
  /\ ev.op = "update()"
  /\ pc = "update"
  /\ hist.resets = 1
  /\ Len(listeners) = 1
  /\ state = NewGameState
  /\ snap = entities
  /\ Len(snap) = InitSize

C18_RemovedWereDestroyed ==
  [][ev'.op = "compact" =>
       \A o \in Range(entities) \ Range(entities') : heap[o].destroys = 1]_vars

\* C19: an entity whose deleted flag was set in the update pass of a frame,
\* or in the collision or late-update pass of an earlier frame, has had
\* destroy() invoked on it and is out of the collection when the compaction
\* step of the running update() call is done, so that none is left in the
\* passes that follow; a reset destroys and removes every flagged entity of
\* the collection.
C19_FlaggedGoneByNextCompaction ==
  [][/\ ev'.op = "compact" =>
          \A o \in Range(entities) :
            heap[o].flaggedIn \in {"update", "old"} =>
              /\ heap[o].destroys = 1
              /\ o \notin Range(entities')
     /\ ev'.op = "reset" =>
          \A o \in Range(entities) :
            heap[o].deleted =>
              /\ heap'[o].destroys = 1
              /\ o \notin Range(entities')
     /\ \A o \in Range(entities') :
          /\ heap'[o].deleted <=> heap'[o].flaggedIn # "none"
          /\ pc' \in {"outer", "inner", "late"} =>
               heap'[o].flaggedIn \in {"none", "collide", "late"}]_vars

\* a compaction has removed an entity that was flagged in an earlier frame,
\* after the update pass of its own frame
C19_Witness ==
  /\ ev.op = "compact"
  /\ \E k \in 1..Len(ev.calls) :
       /\ ev.calls[k][2] = "old"
       /\ heap[ev.calls[k][1]].gone
       /\ ev.calls[k][1] \notin Range(entities)

====
